---- MODULE Spec2Model ----
(***************************************************************************)
(* Model of src/src/RSA_GE.py: three circuit-construction classes (RSA_GE, *)
(* SemiclassicalQFT, TimesExpMod) that emit sub-circuits into a            *)
(* BloqBuilder.  The state is the object that was constructed and the      *)
(* composites built from it so far; one action per constructor and per     *)
(* build_composite_bloq.  The print calls of RSA_GE.build_composite_bloq   *)
(* write to stdout only and are left out.                                  *)
(***************************************************************************)
EXTENDS Integers, Sequences, FiniteSets, TLC

VARIABLES obj, builds

vars == <<obj, builds>>

(* ---- bounds of the model ---------------------------------------------- *)
MaxN == 9
MaxG == 4
MaxBits == 3
MaxBuilds == 2

(* ---- python built-ins -------------------------------------------------- *)
RECURSIVE bit_length(_)
bit_length(n) == IF n = 0 THEN 0 ELSE 1 + bit_length(n \div 2)

\* pow(b, e, N): modular exponentiation, result in 0..N-1
RECURSIVE pow(_, _, _)
pow(b, e, N) ==
    IF e = 0 THEN 1 % N
    ELSE LET h == pow(b, e \div 2, N)
         IN  IF e % 2 = 0 THEN (h * h) % N ELSE (((h * h) % N) * (b % N)) % N

\* an assignment v = <expression>: the expression is evaluated once and F continues
\* with its value
Assign(v, F(_)) == CHOOSE r \in {F(w) : w \in {v}} : TRUE

\* list(range(start, stop, step)) for step > 0
RECURSIVE range(_, _, _)
range(start, stop, step) ==
    IF start >= stop THEN <<>> ELSE <<start>> \o range(start + step, stop, step)

\* list(range(start, stop, -1)): start, start-1, ..., stop+1
RECURSIVE range_down(_, _)
range_down(start, stop) ==
    IF start <= stop THEN <<>> ELSE <<start>> \o range_down(start - 1, stop)

\* s[lo:hi] of a list (0-based, hi clamped to len(s))
slice(s, lo, hi) ==
    SubSeq(s, lo + 1, IF hi < Len(s) THEN hi ELSE Len(s))

\* a dict literal {k1: v1, ...} and a set literal {'m', m}
Dict(map) == [kind |-> "dict", map |-> map]
PySet(strs, soqs) == [kind |-> "set", strs |-> strs, soqs |-> soqs]

(* ---- bloqs, registers, soquets ----------------------------------------- *)
Register(name, w) == [name |-> name, w |-> w]
Soquet(id, w) == [id |-> id, w |-> w]
Arg(reg, soq) == [reg |-> reg, soq |-> soq]

RSA_GE(N, g, ew, mw) ==
    [cls |-> "RSA_GE", N |-> N, N_bitsize |-> bit_length(N), g |-> g,
     ew |-> ew, mw |-> mw]
SemiclassicalQFT(n, m, i) == [cls |-> "SemiclassicalQFT", n |-> n, m |-> m, i |-> i]
TimesExpMod(g, N, e_bitsize, x_bitsize) ==
    [cls |-> "TimesExpMod", g |-> g, N |-> N, e_bitsize |-> e_bitsize,
     x_bitsize |-> x_bitsize]
CModMulK(bitsize, k, mod) == [cls |-> "CModMulK", bitsize |-> bitsize, k |-> k, mod |-> mod]
Identity(bitsize) == [cls |-> "Identity", bitsize |-> bitsize]
Split(n) == [cls |-> "Split", n |-> n]
Join(n) == [cls |-> "Join", n |-> n]

\* the registers of a bloq whose inputs and outputs have the same shape
Signature(b) ==
    CASE b.cls = "RSA_GE" -> <<Register("ew", b.ew), Register("x", b.N_bitsize)>>
      [] b.cls = "SemiclassicalQFT" -> <<Register("m", b.m)>>
      [] b.cls = "TimesExpMod" ->
            <<Register("e", b.e_bitsize), Register("x", b.x_bitsize)>>
      [] b.cls = "CModMulK" -> <<Register("ctrl", 1), Register("x", b.bitsize)>>
      [] b.cls = "Identity" -> <<Register("q", b.bitsize)>>

(* ---- BloqBuilder -------------------------------------------------------- *)
\* a builder holds the sub-circuits added so far and the number of soquets
\* handed out; soquet ids are handed out in order of creation
bb_new(sig) ==
    [bb |-> [ops |-> <<>>, n |-> Len(sig)],
     soqs |-> [r \in 1..Len(sig) |-> Soquet(r, sig[r].w)]]

Op(bloq, ins, outs) == [bloq |-> bloq, ins |-> ins, outs |-> outs]

\* bb.add(bloq, **ins): one fresh output soquet per register of the bloq
bb_add(bb, bloq, ins) ==
    LET sig == Signature(bloq)
        outs == [r \in 1..Len(sig) |-> Soquet(bb.n + r, sig[r].w)]
    IN  [bb |-> [ops |-> Append(bb.ops, Op(bloq, ins, outs)), n |-> bb.n + Len(sig)],
         outs |-> outs]

\* bb.split(soq): soq.w one-bit soquets, index 0 the most significant
bb_split(bb, soq) ==
    LET outs == [r \in 1..soq.w |-> Soquet(bb.n + r, 1)]
    IN  [bb |-> [ops |-> Append(bb.ops, Op(Split(soq.w), <<Arg("reg", soq)>>, outs)),
                 n |-> bb.n + soq.w],
         outs |-> outs]

\* bb.join(soqs, dtype=QUInt(n)): one soquet of width n
bb_join(bb, soqs, n) ==
    LET out == Soquet(bb.n + 1, n)
    IN  [bb |-> [ops |-> Append(bb.ops,
                                Op(Join(n), [r \in 1..Len(soqs) |-> Arg("reg", soqs[r])],
                                   <<out>>)),
                 n |-> bb.n + 1],
         out |-> out]

\* the result of one build: what was added, the input soquets, what was returned
\* and the calls of ekera_hastad_component made on the way
Built(bb, inputs, ret, frames) ==
    [ops |-> bb.ops, n |-> bb.n, inputs |-> inputs, ret |-> ret, frames |-> frames]

(* ---- TimesExpMod --------------------------------------------------------- *)
\* faulty variant: the bits visited in ascending order j = 0, 1, ...
TimesExpMod_range_up(self) == range(0, self.e_bitsize, 1)
\* the loop header: for j in range(self.e_bitsize - 1, 0 - 1, -1)
TimesExpMod_range(self) == range_down(self.e_bitsize - 1, 0 - 1)

\* faulty variant: g is not squared after the multiplication
TimesExpMod_body_nosquare(self, st, j) ==
    LET r == bb_add(st.bb, CModMulK(self.x_bitsize, st.g, self.N),
                    <<Arg("ctrl", st.e[j + 1]), Arg("x", st.x)>>)
    IN  [bb |-> r.bb, e |-> [st.e EXCEPT ![j + 1] = r.outs[1]], x |-> r.outs[2],
         g |-> st.g]
\* the loop body; st holds the locals bb, e (list of soquets), x and g
TimesExpMod_body(self, st, j) ==
    LET r == bb_add(st.bb, CModMulK(self.x_bitsize, st.g, self.N),
                    <<Arg("ctrl", st.e[j + 1]), Arg("x", st.x)>>)
    IN  [bb |-> r.bb, e |-> [st.e EXCEPT ![j + 1] = r.outs[1]], x |-> r.outs[2],
         g |-> (st.g * st.g) % self.N]

RECURSIVE TimesExpMod_loop(_, _, _)
TimesExpMod_loop(self, st, js) ==
    IF js = <<>> THEN st
    ELSE Assign(TimesExpMod_body(self, st, Head(js)),
                LAMBDA st2 : TimesExpMod_loop(self, st2, Tail(js)))

TimesExpMod_build_composite_bloq(self) ==
    LET b0 == bb_new(Signature(self))
        sp == bb_split(b0.bb, b0.soqs[1])
        end(st) ==
            LET jn == bb_join(st.bb, st.e, self.e_bitsize)
            IN  Built(jn.bb, b0.soqs,
                      Dict([k \in {"e", "x"} |-> IF k = "e" THEN jn.out ELSE st.x]), <<>>)
    IN  Assign(TimesExpMod_loop(self,
                                [bb |-> sp.bb, e |-> sp.outs, x |-> b0.soqs[2],
                                 g |-> self.g % self.N],
                                TimesExpMod_range(self)),
               end)

(* ---- SemiclassicalQFT ---------------------------------------------------- *)
\* bb.add(Identity(self.m)) is called with no soquet; the set {'m', m} is returned
SemiclassicalQFT_build_composite_bloq(self) ==
    LET b0 == bb_new(Signature(self))
        r == bb_add(b0.bb, Identity(self.m), <<>>)
    IN  Built(r.bb, b0.soqs, PySet({"m"}, {r.outs[1]}), <<>>)

(* ---- RSA_GE --------------------------------------------------------------- *)
\* gi = pow(g, 2**(e_bitsize-1-i), self.N)
ekera_hastad_gi(self, g, e_bitsize, i) == pow(g, 2 ^ (e_bitsize - 1 - i), self.N)

\* faulty variant: a shorter last window is treated like a full one
ekera_hastad_full_always(self, e_bits, i) == TRUE
\* len(e_bits[i:i+self.ew]) == self.ew
ekera_hastad_full(self, e_bits, i) == Len(slice(e_bits, i, i + self.ew)) = self.ew

\* faulty variant: the SemiclassicalQFT of the window is added before its TimesExpMod
ekera_hastad_body_qft_first(self, g, e_bitsize, st, i) ==
    LET e_bits == range(0, e_bitsize, 1)
        gi == ekera_hastad_gi(self, g, e_bitsize, i)
        q == bb_add(st.bb, SemiclassicalQFT(e_bitsize, self.ew, i), <<Arg("m", st.ew)>>)
        t == IF ekera_hastad_full(self, e_bits, i)
             THEN LET r == bb_add(q.bb,
                                  TimesExpMod(gi, self.N,
                                              Len(slice(e_bits, i, i + self.ew)),
                                              self.N_bitsize),
                                  <<Arg("e", q.outs[1]), Arg("x", st.x)>>)
                  IN  [bb |-> r.bb, ew |-> r.outs[1], x |-> r.outs[2]]
             ELSE [bb |-> q.bb, ew |-> q.outs[1], x |-> st.x]
    IN  t
\* one iteration of the loop over the windows; st holds bb, ew and x
ekera_hastad_body(self, g, e_bitsize, st, i) ==
    LET e_bits == range(0, e_bitsize, 1)
        gi == ekera_hastad_gi(self, g, e_bitsize, i)
        t == IF ekera_hastad_full(self, e_bits, i)
             THEN LET r == bb_add(st.bb,
                                  TimesExpMod(gi, self.N,
                                              Len(slice(e_bits, i, i + self.ew)),
                                              self.N_bitsize),
                                  <<Arg("e", st.ew), Arg("x", st.x)>>)
                  IN  [bb |-> r.bb, ew |-> r.outs[1], x |-> r.outs[2]]
             ELSE st
        q == bb_add(t.bb, SemiclassicalQFT(e_bitsize, self.ew, i), <<Arg("m", t.ew)>>)
    IN  [bb |-> q.bb, ew |-> q.outs[1], x |-> t.x]

RECURSIVE ekera_hastad_loop(_, _, _, _, _)
ekera_hastad_loop(self, g, e_bitsize, st, is) ==
    IF is = <<>> THEN st
    ELSE Assign(ekera_hastad_body(self, g, e_bitsize, st, Head(is)),
                LAMBDA st2 : ekera_hastad_loop(self, g, e_bitsize, st2, Tail(is)))

\* the call frame is kept with the result: the arguments g and e_bitsize and the
\* range first..last of the sub-circuits the call added
ekera_hastad_component(self, bb, g, e_bitsize, ew, x) ==
    LET end(st) ==
            [bb |-> st.bb, ew |-> st.ew, x |-> st.x,
             frame |-> [g |-> g, e_bitsize |-> e_bitsize, first |-> Len(bb.ops) + 1,
                        last |-> Len(st.bb.ops), ew_in |-> ew, ew_out |-> st.ew,
                        x_in |-> x, x_out |-> st.x]]
    IN  Assign(ekera_hastad_loop(self, g, e_bitsize, [bb |-> bb, ew |-> ew, x |-> x],
                                 range(0, e_bitsize, self.ew)),
               end)

\* faulty variant: the two calls in the opposite order
RSA_GE_components_swapped(self) ==
    LET m == self.N_bitsize \div 2 + 1
        s == 1
    IN  <<[g |-> pow(self.g, self.N + 1, self.N), e_bitsize |-> m \div s],
          [g |-> self.g, e_bitsize |-> 2 * m]>>
\* the arguments of the two calls: (self.g, 2*m) and (pow(self.g, self.N+1, self.N), m//s)
RSA_GE_components(self) ==
    LET m == self.N_bitsize \div 2 + 1
        e1_bitsize == 2 * m
        s == 1
        e2_bitsize == m \div s
        y == pow(self.g, self.N + 1, self.N)
    IN  <<[g |-> self.g, e_bitsize |-> e1_bitsize], [g |-> y, e_bitsize |-> e2_bitsize]>>

RSA_GE_build_composite_bloq(self) ==
    LET b0 == bb_new(Signature(self))
        ret(c1, c2) ==
            Built(c2.bb, b0.soqs,
                  Dict([k \in {"ew", "x"} |-> IF k = "ew" THEN c2.ew ELSE c2.x]),
                  <<c1.frame, c2.frame>>)
        second(c, c1) ==
            Assign(ekera_hastad_component(self, c1.bb, c[2].g, c[2].e_bitsize, c1.ew, c1.x),
                   LAMBDA c2 : ret(c1, c2))
        first(c) ==
            Assign(ekera_hastad_component(self, b0.bb, c[1].g, c[1].e_bitsize,
                                          b0.soqs[1], b0.soqs[2]),
                   LAMBDA c1 : second(c, c1))
    IN  Assign(RSA_GE_components(self), first)

(* ---- the state machine ---------------------------------------------------- *)
NoObj == [cls |-> "none"]

Init == obj = NoObj /\ builds = <<>>

RSA_GE_init ==
    /\ obj = NoObj
    /\ \E N \in 1..MaxN, g \in 0..MaxG, ew \in 1..MaxBits, mw \in 1..MaxBits :
          obj' = RSA_GE(N, g, ew, mw)
    /\ UNCHANGED builds

SemiclassicalQFT_init ==
    /\ obj = NoObj
    /\ \E n \in 1..MaxBits, m \in 1..MaxBits, i \in 0..(MaxBits - 1) :
          obj' = SemiclassicalQFT(n, m, i)
    /\ UNCHANGED builds

TimesExpMod_init ==
    /\ obj = NoObj
    /\ \E g \in 0..MaxG, N \in 1..MaxN, e_bitsize \in 1..MaxBits,
          x_bitsize \in 1..MaxBits :
          obj' = TimesExpMod(g, N, e_bitsize, x_bitsize)
    /\ UNCHANGED builds

RSA_GE_build ==
    /\ obj.cls = "RSA_GE"
    /\ Len(builds) < MaxBuilds
    /\ builds' = Append(builds, RSA_GE_build_composite_bloq(obj))
    /\ UNCHANGED obj

SemiclassicalQFT_build ==
    /\ obj.cls = "SemiclassicalQFT"
    /\ Len(builds) < MaxBuilds
    /\ builds' = Append(builds, SemiclassicalQFT_build_composite_bloq(obj))
    /\ UNCHANGED obj

\* faulty variant: the squared base is written back to self.g
TimesExpMod_build_writes_g ==
    /\ obj.cls = "TimesExpMod"
    /\ Len(builds) < MaxBuilds
    /\ builds' = Append(builds, TimesExpMod_build_composite_bloq(obj))
    /\ obj' = [obj EXCEPT !.g = (obj.g * obj.g) % obj.N]
TimesExpMod_build ==
    /\ obj.cls = "TimesExpMod"
    /\ Len(builds) < MaxBuilds
    /\ builds' = Append(builds, TimesExpMod_build_composite_bloq(obj))
    /\ UNCHANGED obj

Next ==
    \/ RSA_GE_init
    \/ SemiclassicalQFT_init
    \/ TimesExpMod_init
    \/ RSA_GE_build
    \/ SemiclassicalQFT_build
    \/ TimesExpMod_build

Spec == Init /\ [][Next]_vars

(* ---- reading a built composite -------------------------------------------- *)
Elems(seq) == {seq[r] : r \in 1..Len(seq)}

\* the soquet an added sub-circuit was given for its register reg
ArgSoq(op, reg) == (CHOOSE a \in Elems(op.ins) : a.reg = reg).soq

\* the soquets a build returned
Returned(b) ==
    IF b.ret.kind = "dict" THEN {b.ret.map[k] : k \in DOMAIN b.ret.map} ELSE b.ret.soqs

\* classical action of the sub-circuits of a TimesExpMod composite, on the values
\* carried by the soquets (vals[id]): split is big-endian, CModMulK multiplies x
\* by k modulo mod exactly when its control bit is 1, join is big-endian
Bit(e, j, n) == (e \div (2 ^ (n - 1 - j))) % 2

RECURSIVE JoinVal(_, _)
JoinVal(ins, vals) ==
    IF ins = <<>> THEN 0
    ELSE vals[Head(ins).soq.id] * (2 ^ (Len(ins) - 1)) + JoinVal(Tail(ins), vals)

OpVals(op, vals) ==
    CASE op.bloq.cls = "Split" ->
            [r \in 1..op.bloq.n |-> Bit(vals[op.ins[1].soq.id], r - 1, op.bloq.n)]
      [] op.bloq.cls = "CModMulK" ->
            LET c == vals[ArgSoq(op, "ctrl").id]
                x == vals[ArgSoq(op, "x").id]
            IN  <<c, IF c = 1 THEN (x * op.bloq.k) % op.bloq.mod ELSE x>>
      [] op.bloq.cls = "Join" -> <<JoinVal(op.ins, vals)>>

RECURSIVE Sim(_, _)
Sim(ops, vals) ==
    IF ops = <<>> THEN vals ELSE Sim(Tail(ops), vals \o OpVals(Head(ops), vals))

\* the controlled multiplications of a TimesExpMod composite d, in order of emission
Muls(d) == SelectSeq(d.ops, LAMBDA op : op.bloq.cls = "CModMulK")

\* the index j of the split bit e[j] that controls the multiplication op of d
CtrlBit(d, op) ==
    CHOOSE j \in 0..(Len(d.ops[1].outs) - 1) : d.ops[1].outs[j + 1] = ArgSoq(op, "ctrl")

\* the builds of the state made from an object of class cls
BuildsOf(cls) == IF obj.cls = cls THEN Elems(builds) ELSE {}

C4_ReturnsSignatureMapping ==
    \A b \in Elems(builds) :
        LET sig == Signature(obj)
        IN  /\ b.ret.kind = "dict"
            /\ DOMAIN b.ret.map = {sig[r].name : r \in 1..Len(sig)}
            /\ \A r \in 1..Len(sig) : b.ret.map[sig[r].name].w = sig[r].w

(* ---- wiring: C8, C9 ----------------------------------------------------------- *)
\* the soquets that exist during a build: its inputs and every output of an
\* added sub-circuit, split or join
Created(b) == Elems(b.inputs) \cup UNION {Elems(b.ops[k].outs) : k \in 1..Len(b.ops)}

\* how often soquet s is consumed: as an input of an added sub-circuit or as a
\* returned output
Uses(b, s) ==
    Cardinality({kr \in UNION {{<<k, r>> : r \in 1..Len(b.ops[k].ins)} : k \in 1..Len(b.ops)} :
                    b.ops[kr[1]].ins[kr[2]].soq = s})
    + (IF b.ret.kind = "dict"
       THEN Cardinality({k \in DOMAIN b.ret.map : b.ret.map[k] = s})
       ELSE IF s \in b.ret.soqs THEN 1 ELSE 0)

\* the sub-circuit was given a soquet for each of its input registers
GivenItsInputs(op) ==
    CASE op.bloq.cls = "Split" -> Len(op.ins) = 1
      [] op.bloq.cls = "Join" -> Len(op.ins) = op.bloq.n
      [] OTHER ->
            LET sig == Signature(op.bloq)
            IN  /\ Len(op.ins) = Len(sig)
                /\ {op.ins[r].reg : r \in 1..Len(op.ins)} = {sig[r].name : r \in 1..Len(sig)}

\* C8: in every composite built, each soquet that exists is consumed exactly once
\* and every added sub-circuit is given its inputs.
C8_WireLinearity ==
    \A b \in Elems(builds) :
        /\ \A s \in Created(b) : Uses(b, s) = 1
        /\ \A k \in 1..Len(b.ops) : GivenItsInputs(b.ops[k])

\* the declared width of register reg of a bloq
RegWidth(bloq, reg) ==
    LET sig == Signature(bloq)
    IN  sig[CHOOSE r \in 1..Len(sig) : sig[r].name = reg].w

\* C9: in every composite built by RSA_GE, each TimesExpMod has e_bitsize = ew and
\* x_bitsize = bit_length(N), each SemiclassicalQFT has register width ew, and every
\* soquet given to a sub-circuit has the width of the register it is connected to.
C9_WidthsMatch ==
    \A b \in BuildsOf("RSA_GE") :
        \A k \in 1..Len(b.ops) :
            LET op == b.ops[k]
            IN  /\ op.bloq.cls = "TimesExpMod" =>
                      /\ op.bloq.e_bitsize = obj.ew
                      /\ op.bloq.x_bitsize = bit_length(obj.N)
                      /\ ArgSoq(op, "e").w = obj.ew
                      /\ ArgSoq(op, "x").w = bit_length(obj.N)
                /\ op.bloq.cls = "SemiclassicalQFT" =>
                      /\ op.bloq.m = obj.ew
                      /\ ArgSoq(op, "m").w = obj.ew
                /\ \A r \in 1..Len(op.ins) :
                      op.ins[r].soq.w = RegWidth(op.bloq, op.ins[r].reg)

\* an RSA_GE whose window does not divide an exponent length was built, with a
\* TimesExpMod among its sub-circuits and an x wire wider than the window
C9_Witness ==
    /\ obj.cls = "RSA_GE" /\ Len(builds) >= 1
    /\ obj.ew = 2 /\ obj.N_bitsize = 4
    /\ \E k \in 1..Len(builds[1].ops) : builds[1].ops[k].bloq.cls = "TimesExpMod"
    /\ builds[1].frames[2].e_bitsize % obj.ew # 0

(* ---- RSA_GE: the sequence emitted, C6, C7 ------------------------------------ *)
\* the sub-circuits a call of ekera_hastad_component added, in order
FrameOps(b, f) == SubSeq(b.ops, f.first, f.last)

\* the soquet a sub-circuit of an RSA_GE composite was given for its exponent register
ExpArg(op) == IF op.bloq.cls = "TimesExpMod" THEN ArgSoq(op, "e") ELSE ArgSoq(op, "m")

\* C6: each call of ekera_hastad_component emits one SemiclassicalQFT(e_bitsize, ew, i)
\* per window, for i = 0, ew, 2*ew, ... < e_bitsize in this order, ceil(e_bitsize/ew)
\* of them; a TimesExpMod is directly followed by the SemiclassicalQFT of its window,
\* which measures the exponent wire the TimesExpMod returned, and the next
\* sub-circuit of the call takes the exponent wire that SemiclassicalQFT returned.
C6_WindowOrder ==
    \A b \in BuildsOf("RSA_GE") :
        \A fi \in 1..Len(b.frames) :
            LET f == b.frames[fi]
                ops == FrameOps(b, f)
                qfts == SelectSeq(ops, LAMBDA op : op.bloq.cls = "SemiclassicalQFT")
                starts == range(0, f.e_bitsize, obj.ew)
            IN  /\ Len(qfts) = (f.e_bitsize + obj.ew - 1) \div obj.ew
                /\ Len(qfts) = Len(starts)
                /\ \A w \in 1..Len(qfts) :
                      qfts[w].bloq = SemiclassicalQFT(f.e_bitsize, obj.ew, starts[w])
                /\ \A w \in 1..(Len(qfts) - 1) : qfts[w].bloq.i < qfts[w + 1].bloq.i
                /\ \A k \in 1..Len(ops) :
                      /\ ops[k].bloq.cls \in {"TimesExpMod", "SemiclassicalQFT"}
                      /\ ops[k].bloq.cls = "TimesExpMod" =>
                            /\ k < Len(ops)
                            /\ ops[k + 1].bloq.cls = "SemiclassicalQFT"
                            /\ ArgSoq(ops[k + 1], "m") = ops[k].outs[1]
                            /\ ops[k].bloq.g =
                                  pow(f.g, 2 ^ (f.e_bitsize - 1 - ops[k + 1].bloq.i), obj.N)
                      /\ (ops[k].bloq.cls = "SemiclassicalQFT" /\ k < Len(ops)) =>
                            ExpArg(ops[k + 1]) = ops[k].outs[1]
                /\ Len(ops) >= 1 /\ ops[Len(ops)].bloq.cls = "SemiclassicalQFT"

\* an RSA_GE was built whose first call emitted at least two windows, each with its
\* TimesExpMod, and whose second call ends in a window without one
C6_Witness ==
    /\ obj.cls = "RSA_GE" /\ Len(builds) >= 1
    /\ LET b == builds[1]
           ops == FrameOps(b, b.frames[1])
       IN  /\ Len(ops) >= 4
           /\ ops[1].bloq.cls = "TimesExpMod" /\ ops[3].bloq.cls = "TimesExpMod"
           /\ b.frames[2].e_bitsize % obj.ew # 0

\* C7: RSA_GE.build_composite_bloq makes two calls of ekera_hastad_component: with
\* m = bit_length(N) \div 2 + 1, the first with base g and exponent length 2*m, the
\* second with base g^(N+1) mod N and exponent length m; the sub-circuits of the
\* first call come before those of the second, nothing else is added, and the x
\* wire returned by the first call is the x wire given to the second.
C7_TwoComponents ==
    \A b \in BuildsOf("RSA_GE") :
        LET m == bit_length(obj.N) \div 2 + 1
        IN  /\ Len(b.frames) = 2
            /\ b.frames[1].g = obj.g /\ b.frames[1].e_bitsize = 2 * m
            /\ b.frames[2].g = pow(obj.g, obj.N + 1, obj.N) /\ b.frames[2].e_bitsize = m
            /\ b.frames[1].first = 1
            /\ b.frames[2].first = b.frames[1].last + 1
            /\ b.frames[2].last = Len(b.ops)
            /\ b.frames[1].x_out = b.frames[2].x_in
            /\ b.frames[1].ew_out = b.frames[2].ew_in
            /\ b.frames[1].x_in = b.inputs[2] /\ b.frames[1].ew_in = b.inputs[1]
            /\ b.ret.map["x"] = b.frames[2].x_out /\ b.ret.map["ew"] = b.frames[2].ew_out
            /\ \A k \in 1..Len(b.ops) :
                  b.ops[k].bloq.cls = "SemiclassicalQFT" =>
                      b.ops[k].bloq.n = (IF k <= b.frames[1].last THEN 2 * m ELSE m)

\* an RSA_GE was built whose two bases differ and whose two calls both emitted a
\* TimesExpMod
C7_Witness ==
    /\ obj.cls = "RSA_GE" /\ Len(builds) >= 1
    /\ LET b == builds[1]
       IN  /\ b.frames[1].g # b.frames[2].g
           /\ b.ops[b.frames[1].first].bloq.cls = "TimesExpMod"
           /\ b.ops[b.frames[2].first].bloq.cls = "TimesExpMod"
           /\ b.frames[1].x_out # b.inputs[2]

(* ---- RSA_GE: the exponent bits, C2, C3 ---------------------------------------- *)
\* the window start i of a TimesExpMod of an RSA_GE composite: the i of the
\* SemiclassicalQFT that measures the exponent wire it returns
WindowOf(b, op) ==
    (CHOOSE q \in Elems(b.ops) :
        q.bloq.cls = "SemiclassicalQFT" /\ ArgSoq(q, "m") = op.outs[1]).bloq.i

\* the controlled multiplications behind the sub-circuits of one call: for the
\* TimesExpMod at index t of the call and the n-th multiplication of its composite,
\* the big-endian position p = i + j of the exponent bit that controls it and its
\* constant k
BitMuls(b, f) ==
    UNION {LET op == b.ops[t]
               d == TimesExpMod_build_composite_bloq(op.bloq)
               muls == Muls(d)
           IN  {[t |-> t, n |-> n, p |-> WindowOf(b, op) + CtrlBit(d, muls[n]),
                 k |-> muls[n].bloq.k] : n \in 1..Len(muls)}
           : t \in {u \in f.first..f.last : b.ops[u].bloq.cls = "TimesExpMod"}}

\* C2: in every call of ekera_hastad_component(g, e_bitsize), a multiplication
\* controlled by the exponent bit at big-endian position p = i + j uses the constant
\* g^(2^(e_bitsize-1-p)) mod N.
C2_BitConstants ==
    \A b \in BuildsOf("RSA_GE") :
        \A fi \in 1..Len(b.frames) :
            \A mul \in BitMuls(b, b.frames[fi]) :
                /\ mul.p < b.frames[fi].e_bitsize
                /\ mul.k = pow(b.frames[fi].g, 2 ^ (b.frames[fi].e_bitsize - 1 - mul.p),
                               obj.N)

\* C3: in every call of ekera_hastad_component, each exponent bit position
\* 0..e_bitsize-1 controls exactly one controlled multiplication.
C3_EveryBitOnce ==
    \A b \in BuildsOf("RSA_GE") :
        \A fi \in 1..Len(b.frames) :
            \A p \in 0..(b.frames[fi].e_bitsize - 1) :
                Cardinality({mul \in BitMuls(b, b.frames[fi]) : mul.p = p}) = 1

====

